---- MODULE Spec2Model ----
(***************************************************************************)
(* A model of the kdb SQL expression compiler (driver.go): the dialects,   *)
(* the dispatcher AnsiDriver.Compile, the template text compiler, the      *)
(* procedure call compiler and the StatementCompiler visitor.              *)
(*                                                                         *)
(* Go strings are TLA+ strings (joined with \o); a []byte is a sequence of *)
(* one-character strings; a Go value of type interface{} is a record       *)
(* [t |-> <dynamic type>, v |-> <payload>]; an Expression is a record with *)
(* the field node (what Node() answers) and the fields of its struct.      *)
(***************************************************************************)
EXTENDS Integers, Sequences, FiniteSets, TLC

VARIABLES call, ret, sc, dialecters, compilers, registered, got, procs, heap

vars == <<call, ret, sc, dialecters, compilers, registered, got, procs, heap>>

\* the package's registries and the last call made on them; the calls that
\* run concurrently on a shared driver and the compilers they allocated
registry == <<dialecters, compilers, registered, got>>

concurrent == <<procs, heap>>

(***************************************************************************)
(* Bounds of the model.                                                    *)
(***************************************************************************)
\* longest template text enumerated exhaustively
MaxLen == 3
\* longest collection bound as the right side of IN
MaxSlice == 3
\* most column=value pairs of an Insert
MaxSets == 2
\* most parameters of a Procedure
MaxParams == 2
\* most arguments a reused StatementCompiler may hold before the next call
MaxHeld == 1
\* most registrations made after the package's own
MaxRegistrations == 2
\* the goroutines that call Compile concurrently
NProcs == 2

(***************************************************************************)
(* Go values.                                                              *)
(***************************************************************************)
Nil == [t |-> "nil", v |-> 0]
IntV(i) == [t |-> "int", v |-> i]
StrV(s) == [t |-> "string", v |-> s]
Slice(type, elems) == [t |-> type, v |-> elems]

\* strconv.Itoa / strconv.FormatInt(_, 10)
Digit(d) == CASE d = 0 -> "0" [] d = 1 -> "1" [] d = 2 -> "2" [] d = 3 -> "3"
              [] d = 4 -> "4" [] d = 5 -> "5" [] d = 6 -> "6" [] d = 7 -> "7"
              [] d = 8 -> "8" [] d = 9 -> "9"

RECURSIVE Itoa(_)
Itoa(n) == IF n < 0 THEN "-" \o Itoa(0 - n)
           ELSE IF n < 10 THEN Digit(n)
           ELSE Itoa(n \div 10) \o Digit(n % 10)

\* string(b) for a byte slice b
RECURSIVE String(_)
String(b) ==
    IF Len(b) = 0 THEN ""
    ELSE IF Len(b) = 1 THEN b[1]
    ELSE LET half == Len(b) \div 2
         IN String(SubSeq(b, 1, half)) \o String(SubSeq(b, half + 1, Len(b)))

\* bytes.IndexByte(b, c): the 0-based index of the first c in b, or -1
IndexByte(b, c) ==
    IF \E i \in 1..Len(b) : b[i] = c
    THEN (CHOOSE i \in 1..Len(b) : b[i] = c /\ \A j \in 1..(i - 1) : b[j] # c) - 1
    ELSE -1

\* bytes.TrimSpace(b)
RECURSIVE TrimLeft(_)
TrimLeft(b) == IF b # <<>> /\ Head(b) = " " THEN TrimLeft(Tail(b)) ELSE b

RECURSIVE TrimRight(_)
TrimRight(b) == IF b # <<>> /\ b[Len(b)] = " " THEN TrimRight(SubSeq(b, 1, Len(b) - 1)) ELSE b

TrimSpace(b) == TrimRight(TrimLeft(b))

(***************************************************************************)
(* Errors: errors.New(msg + detail).  NoError is the nil error.            *)
(***************************************************************************)
NoError == [msg |-> "<nil>", detail |-> ""]
NewError(msg, detail) == [msg |-> msg, detail |-> detail]

(***************************************************************************)
(* Dialects.  ansi, mysql and postgres are the three the package           *)
(* registers; named stands for a caller-supplied Dialecter that supports   *)
(* named parameters (the interface's "like @para1").                       *)
(***************************************************************************)
Dialecters == {"ansi", "mysql", "postgres", "named"}

SupportNamedParameter(d) == d = "named"

SupportIndexedParameter(d) == d = "postgres"

ParameterPlaceHolder(d) ==
    CASE d = "postgres" -> "$"
      [] d = "named" -> "@"
      [] OTHER -> " ? "

Quote(d, s) == "'" \o s \o "'"

\* the placeholder mode both compilers derive from the dialect
Mode(d) == IF SupportNamedParameter(d) THEN 1
           ELSE IF SupportIndexedParameter(d) THEN 2
           ELSE 0

(***************************************************************************)
(* What a call returns: the named results (query, args, err) as they are   *)
(* when the function returns, or a panic that unwinds the call.  ph is a   *)
(* history of the call: the placeholders it wrote, in the order written.   *)
(***************************************************************************)
Returned(query, args, err, ph) ==
    [outcome |-> "returned", query |-> query, args |-> args, err |-> err, panic |-> "",
     ph |-> ph]

Panicked(msg) ==
    [outcome |-> "panic", query |-> "", args |-> <<>>, err |-> NoError, panic |-> msg,
     ph |-> <<>>]

NoCall ==
    [outcome |-> "none", query |-> "", args |-> <<>>, err |-> NoError, panic |-> "",
     ph |-> <<>>]

(***************************************************************************)
(* Template text compiler.                                                 *)
(* A Text is [node, isNil, Sql, Parameters]: Sql a byte sequence,          *)
(* Parameters the sequence of the declared parameters [Name, Value].       *)
(***************************************************************************)
\* Text.FindParameter(name): the parameter of that name, if declared
FindParameter(text, name) ==
    LET ps == text.Parameters
        found == {i \in 1..Len(ps) : ps[i].Name = name}
    IN IF found # {}
       THEN [ok |-> TRUE, Value |-> ps[CHOOSE i \in found : \A j \in found : i <= j].Value]
       ELSE [ok |-> FALSE, Value |-> Nil]

\* C8, a wrong variant of the error return: it hands back what the scanner
\* had built when it failed
compileTextFail_partial(buffer, paramters, ph, err) == Returned(buffer, paramters, err, ph)

\* an error return of compileText: the named results query and args are still
\* their zero values, whatever the buffer and the parameters hold by then
compileTextFail(buffer, paramters, ph, err) == Returned("", <<>>, err, ph)

\* the scanner loop of compileText
RECURSIVE compileTextLoop(_, _, _, _, _, _, _, _)
compileTextLoop(text, d, b, state, buffer, paramters, paraIndex, ph) ==
    IF state = 0
    THEN LET index == IndexByte(b, "{") IN
         IF index >= 0
         THEN compileTextLoop(text, d, SubSeq(b, index + 2, Len(b)), 1,
                              buffer \o String(SubSeq(b, 1, index)), paramters, paraIndex, ph)
         ELSE Returned(buffer \o String(b), paramters, NoError, ph)
    ELSE LET index == IndexByte(b, "}") IN
         IF index > 0
         THEN LET name == String(TrimSpace(SubSeq(b, 1, index)))
                  p == FindParameter(text, name)
                  placeHolder == ParameterPlaceHolder(d)
                  rest == SubSeq(b, index + 2, Len(b))
              IN IF ~p.ok
                 THEN compileTextFail(buffer, paramters, ph,
                                      NewError("text can not find parameter:", name))
                 ELSE CASE Mode(d) = 0 ->
                             compileTextLoop(text, d, rest, 0, buffer \o placeHolder,
                                             Append(paramters, p.Value), paraIndex,
                                             Append(ph, placeHolder))
                        [] Mode(d) = 1 ->
                             compileTextLoop(text, d, rest, 0, buffer \o placeHolder \o name,
                                             Append(paramters, p.Value), paraIndex,
                                             Append(ph, placeHolder \o name))
                        [] Mode(d) = 2 ->
                             compileTextLoop(text, d, rest, 0,
                                             buffer \o placeHolder \o Itoa(paraIndex),
                                             Append(paramters, p.Value), paraIndex + 1,
                                             Append(ph, placeHolder \o Itoa(paraIndex)))
         ELSE compileTextFail(buffer, paramters, ph,
                              NewError("text sql format is invalid", ""))

compileText(d, text) ==
    IF text.isNil \/ text.Sql = <<>>
    THEN Returned("", <<>>, NewError("text is nil or sql of text is empty", ""), <<>>)
    ELSE IF Len(text.Parameters) = 0
    THEN Returned(String(text.Sql), <<>>, NoError, <<>>)
    ELSE compileTextLoop(text, d, text.Sql, 0, "", <<>>, 1, <<>>)

(***************************************************************************)
(* Procedure call compiler.                                                *)
(* A Procedure is [node, isNil, Name, Parameters]; a parameter is          *)
(* [Name, Dir, Value] with Dir one of In, Out, InOut, Return.              *)
(***************************************************************************)
\* Procedure.ReturnParameterName(): the name of the Return parameter, or ""
ReturnParameterName(sp) ==
    IF \E i \in 1..Len(sp.Parameters) : sp.Parameters[i].Dir = "Return"
    THEN sp.Parameters[CHOOSE i \in 1..Len(sp.Parameters) :
                          /\ sp.Parameters[i].Dir = "Return"
                          /\ \A j \in 1..(i - 1) : sp.Parameters[j].Dir # "Return"].Name
    ELSE ""

\* Parameter.IsOut()
IsOut(p) == p.Dir \in {"Out", "InOut"}

\* the first loop: a SET statement and a bound value for every InOut parameter
RECURSIVE procSetInOut(_, _, _)
procSetInOut(ps, i, acc) ==
    IF i > Len(ps) THEN acc
    ELSE IF ps[i].Dir = "InOut"
    THEN procSetInOut(ps, i + 1,
                      [w |-> acc.w \o "SET @" \o ps[i].Name \o " = ?; \n",
                       args |-> Append(acc.args, ps[i].Value), ph |-> Append(acc.ph, "?")])
    ELSE procSetInOut(ps, i + 1, acc)

\* the second loop: the argument list of the call
RECURSIVE procCallArgs(_, _, _)
\* a variant that binds a value for every parameter of the list, whatever its direction
procCallArgs_bindsOut(ps, i, acc) ==
    IF i > Len(ps) THEN acc
    ELSE procCallArgs(ps, i + 1,
                      [w |-> acc.w \o (IF i > 1 THEN ", " ELSE "")
                                   \o (IF ps[i].Dir = "In" THEN "?" ELSE "@" \o ps[i].Name),
                       args |-> Append(acc.args, ps[i].Value),
                       hasOut |-> acc.hasOut \/ ps[i].Dir # "In",
                       ph |-> IF ps[i].Dir = "In" THEN Append(acc.ph, "?") ELSE acc.ph])

procCallArgs(ps, i, acc) ==
    IF i > Len(ps) THEN acc
    ELSE LET sep == IF i > 1 THEN ", " ELSE ""
             p == ps[i]
         IN procCallArgs(ps, i + 1,
              CASE p.Dir = "In" ->
                     [w |-> acc.w \o sep \o "?", args |-> Append(acc.args, p.Value),
                      hasOut |-> acc.hasOut, ph |-> Append(acc.ph, "?")]
                [] p.Dir \in {"InOut", "Out"} ->
                     [w |-> acc.w \o sep \o "@" \o p.Name, args |-> acc.args,
                      hasOut |-> TRUE, ph |-> acc.ph]
                [] OTHER ->
                     [w |-> acc.w \o sep, args |-> acc.args, hasOut |-> acc.hasOut,
                      ph |-> acc.ph])

\* the third loop: the variables the trailing SELECT lists
RECURSIVE procSelect(_, _, _, _)
procSelect(ps, i, w, delimit) ==
    IF i > Len(ps) THEN w
    ELSE IF IsOut(ps[i]) \/ ps[i].Dir = "Return"
    THEN procSelect(ps, i + 1, w \o (IF delimit THEN ", " ELSE "") \o "@" \o ps[i].Name, TRUE)
    ELSE procSelect(ps, i + 1, w, delimit)

compileProcedure(d, sp) ==
    IF sp.isNil \/ sp.Name = ""
    THEN Returned("", <<>>, NewError("procedure is nil or name of procedure is empty", ""),
                  <<>>)
    ELSE LET returnName == ReturnParameterName(sp)
             s1 == procSetInOut(sp.Parameters, 1, [w |-> "", args |-> <<>>, ph |-> <<>>])
             head == s1.w \o (IF returnName = "" THEN "CALL " ELSE "SET @" \o returnName)
                          \o sp.Name \o " ( "
             s2 == procCallArgs(sp.Parameters, 1,
                                [w |-> head, args |-> s1.args, hasOut |-> FALSE, ph |-> s1.ph])
             call2 == s2.w \o " );"
             tail == IF s2.hasOut \/ returnName # ""
                     THEN procSelect(sp.Parameters, 1, call2 \o "\nSELECT ", FALSE) \o "; "
                     ELSE call2
         IN Returned(tail, s2.args, NoError, s2.ph)

(***************************************************************************)
(* The ansi package's keywords and the sqlWriter's punctuation.            *)
(***************************************************************************)
ansi_Null == "NULL"
ansi_As == "AS"
ansi_On == "ON"
ansi_Select == "SELECT"
ansi_Distinct == "DISTINCT"
ansi_WildcardAll == "*"
ansi_From == "FROM"
ansi_Where == "WHERE"
ansi_GroupBy == "GROUP BY"
ansi_Having == "HAVING"
ansi_OrderBy == "ORDER BY"
ansi_Limit == "LIMIT"
ansi_InsertInto == "INSERT INTO"
ansi_Values == "VALUES"
ansi_Update == "UPDATE"
ansi_Set == "SET"
ansi_Delete == "DELETE"
ansi_Equals == "="
ansi_Blank == " "
ansi_LineBreak == "\n"
ansi_StatementSplit == ";"

\* the operators of a Condition, as Op.String() renders them
In == "IN"
NotIn == "NOT IN"

\* the nil Expression, and the nil pointer of a clause or a table
NilExp == [node |-> "nil"]

\* the structural markers of a Conditions sequence
OpenParentheses == [node |-> "Sql", raw |-> TRUE, sql |-> "("]
CloseParentheses == [node |-> "Sql", raw |-> TRUE, sql |-> ")"]

IsMarker(item, marker) == item.node = "Sql" /\ item.raw /\ item.sql = marker.sql

(***************************************************************************)
(* StatementCompiler.  The visitor's state s is the compiler's fields      *)
(* [w, args, paraIndex, placeHolder], the history ph, and panic, the       *)
(* message of a panic                                                      *)
(* that is unwinding the call ("" while there is none): a panic skips      *)
(* everything the call would still do, so every visit passes an unwinding  *)
(* state on unchanged.                                                     *)
(***************************************************************************)
\* sqlWriter.WriteString / Print
W(s, str) == IF s.panic # "" THEN s ELSE [s EXCEPT !.w = @ \o str]

Comma(s) == W(s, ",")

Blank(s) == W(s, " ")

LineBreak(s) == W(s, "\n")

OpenParen(s) == W(s, "(")

CloseParen(s) == W(s, ")")

\* sqlWriter.PrintSplit(split, items...)
RECURSIVE JoinSplit(_, _)
JoinSplit(split, items) ==
    IF items = <<>> THEN ""
    ELSE IF Len(items) = 1 THEN items[1]
    ELSE items[1] \o split \o JoinSplit(split, Tail(items))

PrintSplit(s, split, items) == W(s, JoinSplit(split, items))

\* strings.Repeat(str, n)
RECURSIVE Repeat(_, _)
Repeat(str, n) == IF n <= 0 THEN "" ELSE str \o Repeat(str, n - 1)

\* panic(msg)
Panic(s, msg) == IF s.panic # "" THEN s ELSE [s EXCEPT !.panic = msg]

\* a nil pointer dereference
NilDereference(s) == Panic(s, "invalid memory address or nil pointer dereference")

writeQuote(d, s, str) == W(s, Quote(d, str))

writeValue(d, s, v) ==
    IF s.panic # "" THEN s
    ELSE IF v.t = "nil" THEN W(s, ansi_Null)
    ELSE LET p == s.placeHolder IN
         CASE Mode(d) = 0 ->
                [s EXCEPT !.w = @ \o p, !.args = Append(@, v), !.ph = Append(@, p)]
           [] Mode(d) = 1 ->
                [s EXCEPT !.paraIndex = @ + 1, !.w = @ \o p \o Itoa(s.paraIndex + 1),
                          !.args = Append(@, v),
                          !.ph = Append(@, p \o Itoa(s.paraIndex + 1))]
           [] Mode(d) = 2 ->
                [s EXCEPT !.paraIndex = @ + 1, !.w = @ \o p \o Itoa(s.paraIndex + 1),
                          !.args = Append(@, v),
                          !.ph = Append(@, p \o Itoa(s.paraIndex + 1))]

\* A call of the named method of the StatementCompiler.  Every method below
\* calls the others through it.
RECURSIVE visit(_, _, _, _)

visitValue(d, s, v) ==
    IF s.panic # "" THEN s
    ELSE
        IF v.node = "nil" \/ v.Value.t = "nil" THEN W(s, ansi_Null)
        ELSE writeValue(d, s, v.Value)

visitColumn(d, s, c) == W(s, c.name)

visitTable(d, s, t) ==
    IF s.panic # "" THEN s
    ELSE
        IF t.node = "nil" \/ (t.Name = "" /\ t.Alias = "") THEN s
        ELSE IF t.Name # "" /\ t.Alias # "" THEN W(s, t.Name \o " " \o ansi_As \o " " \o t.Alias)
        ELSE IF t.Alias = "" THEN W(s, t.Name)
        ELSE IF t.Name = "" THEN W(s, t.Alias)
        ELSE s

\* strconv.FormatFloat(f, 'g', -1, _) of a float that holds a whole number
FormatFloat(f) == Itoa(f)

\* the loops of visitSlice: literal renders the element into the text,
\* otherwise each element goes through writeValue
RECURSIVE visitSliceLoop(_, _, _, _, _)
visitSliceLoop(d, s, v, i, literal) ==
    IF s.panic # "" THEN s
    ELSE
        IF i > Len(v.v) THEN s
        ELSE LET s1 == IF i > 1 THEN Comma(s) ELSE s
                 s2 == CASE literal = "Itoa" -> W(s1, Itoa(v.v[i]))
                         [] literal = "FormatFloat" -> W(s1, FormatFloat(v.v[i]))
                         [] literal = "string" -> writeValue(d, s1, StrV(v.v[i]))
                         [] OTHER -> writeValue(d, s1, v.v[i])
             IN visitSliceLoop(d, s2, v, i + 1, literal)

visitSlice(d, s, v) ==
    IF s.panic # "" THEN s
    ELSE
        CASE v.t = "[]int" -> visitSliceLoop(d, s, v, 1, "Itoa")
          [] v.t = "[]int64" -> visitSliceLoop(d, s, v, 1, "Itoa")
          [] v.t = "[]float32" -> visitSliceLoop(d, s, v, 1, "FormatFloat")
          [] v.t = "[]float64" -> visitSliceLoop(d, s, v, 1, "FormatFloat")
          [] v.t = "[]string" -> visitSliceLoop(d, s, v, 1, "string")
          [] v.t = "[]interface{}" -> visitSliceLoop(d, s, v, 1, "interface{}")
          [] v.t \in {"[]other", "[n]other"} -> visitSliceLoop(d, s, v, 1, "reflect")
          [] OTHER -> writeValue(d, s, v)


visitAggregate(d, s, a) ==
    IF s.panic # "" THEN s
    ELSE
        IF a.node = "nil" \/ a.Exp.node = "nil" \/ a.Name = "" THEN s
        ELSE CloseParen(visit("visitExp", d, OpenParen(W(s, a.Name)), a.Exp))

\* C2, a wrong variant of visitIn: the right side goes through visitExp like
\* any other expression, so a collection is bound whole as one argument
visitIn_wholeCollection(d, s, c) ==
    IF s.panic # "" THEN s
    ELSE CloseParen(visit("visitExp", d,
                          OpenParen(W(visit("visitExp", d, s, c.Left), " " \o c.Op \o " ")),
                          c.Right))

visitIn(d, s, c) ==
    IF s.panic # "" THEN s
    ELSE
        LET s1 == visit("visitExp", d, s, c.Left)
            s2 == OpenParen(W(s1, " " \o c.Op \o " "))
            s3 == IF c.Right.node = "Value"
                  THEN IF c.Right.Value.t # "nil" THEN visit("visitSlice", d, s2, c.Right.Value) ELSE s2
                  ELSE visit("visitExp", d, s2, c.Right)
        IN CloseParen(s3)

visitCondition(d, s, c) ==
    IF s.panic # "" THEN s
    ELSE
        IF c.node = "nil" THEN s
        ELSE IF c.Right.node = "nil" /\ c.Left.node = "nil" THEN W(s, c.Op)
        ELSE IF c.Left.node = "nil" THEN W(visit("visitExp", d, W(s, c.Op \o "("), c.Right), ")")
        ELSE IF c.Right.node = "nil" THEN W(visit("visitExp", d, s, c.Left), " " \o c.Op)
        ELSE IF c.Op = In \/ c.Op = NotIn THEN visit("visitIn", d, s, c)
        ELSE visit("visitExp", d, W(visit("visitExp", d, s, c.Left), " " \o c.Op \o " "), c.Right)

RECURSIVE visitConditionsLoop(_, _, _, _, _)
visitConditionsLoop(d, s, items, i, deep) ==
    IF s.panic # "" THEN s
    ELSE
        IF i > Len(items) THEN s
        ELSE LET item == items[i] IN
             IF item.node = "nil" THEN visitConditionsLoop(d, s, items, i + 1, deep)
             ELSE LET s1 == IF i > 1 THEN LineBreak(s) ELSE s
                      deep1 == IF IsMarker(item, CloseParentheses) THEN deep - 1 ELSE deep
                      s2 == IF deep1 > 0 THEN W(s1, Repeat("\t", deep1)) ELSE s1
                      s3 == visit("visitExp", d, s2, item)
                      deep2 == IF IsMarker(item, OpenParentheses) THEN deep1 + 1 ELSE deep1
                  IN visitConditionsLoop(d, s3, items, i + 1, deep2)

visitConditions(d, s, c) ==
    IF s.panic # "" THEN s
    ELSE
        IF c.node = "nil" THEN s
        ELSE Blank(visitConditionsLoop(d, s, c.Conditions, 1, 0))

\* Conditions.isEmpty() and Where.isEmpty()
ConditionsIsEmpty(c) == c.node = "nil" \/ c.Conditions = <<>>

WhereIsEmpty(where) == ConditionsIsEmpty(where.Conditions)

RECURSIVE visitJoinLoop(_, _, _, _)
visitJoinLoop(d, s, items, i) ==
    IF s.panic # "" THEN s
    ELSE
        IF i > Len(items) THEN s
        ELSE visitJoinLoop(d, Blank(visit("visitExp", d, Blank(s), items[i])), items, i + 1)

visitJoin(d, s, j) ==
    IF s.panic # "" THEN s
    ELSE
        IF j.node = "nil" THEN s
        ELSE LET s1 == Blank(visit("visitTable", d, Blank(W(s, j.JoinType)), j.Right))
             IN IF ~ConditionsIsEmpty(j.Conditions)
                THEN visitJoinLoop(d, W(s1, ansi_On), j.Conditions.Conditions, 1)
                ELSE s1

RECURSIVE visitFromTables(_, _, _, _, _)
visitFromTables(d, s, tables, i, split) ==
    IF s.panic # "" THEN s
    ELSE
        IF i > Len(tables) THEN s
        ELSE visitFromTables(d, visit("visitTable", d, IF split THEN Comma(s) ELSE s, tables[i]),
                             tables, i + 1, TRUE)

RECURSIVE visitFromJoins(_, _, _, _)
visitFromJoins(d, s, joins, i) ==
    IF s.panic # "" THEN s
    ELSE
        IF i > Len(joins) THEN s
        ELSE visitFromJoins(d, visit("visitJoin", d, LineBreak(s), joins[i]), joins, i + 1)

visitFrom(d, s, f) ==
    IF s.panic # "" THEN s
    ELSE
        IF f.node = "nil" THEN s
        ELSE LET s1 == W(s, "\n" \o ansi_From \o " ")
                 s2 == IF f.Table.node # "nil" THEN visit("visitTable", d, s1, f.Table) ELSE s1
                 s3 == visitFromTables(d, s2, f.Tables, 1, f.Table.node # "nil")
             IN Blank(visitFromJoins(d, s3, f.Joins, 1))

visitWhere(d, s, where) ==
    IF s.panic # "" THEN s
    ELSE
        IF where.node = "nil" \/ WhereIsEmpty(where) THEN s
        ELSE visit("visitConditions", d, W(s, "\n" \o ansi_Where \o "\n"), where.Conditions)

visitField(d, s, f) ==
    IF s.panic # "" THEN s
    ELSE
        IF f.node = "nil" THEN s
        ELSE LET s1 == visit("visitExp", d, s, f.Exp)
             IN IF f.Alias # "" THEN writeQuote(d, W(s1, " " \o ansi_As \o " "), f.Alias) ELSE s1

RECURSIVE visitSelectLoop(_, _, _, _)
visitSelectLoop(d, s, fields, i) ==
    IF s.panic # "" THEN s
    ELSE
        IF i > Len(fields) THEN s
        ELSE visitSelectLoop(d, visit("visitField", d, IF i > 1 THEN Comma(s) ELSE s, fields[i]),
                             fields, i + 1)

visitSelect(d, s, slt) ==
    IF s.panic # "" THEN s
    ELSE
        IF slt.node = "nil" \/ Len(slt.Fields) = 0 THEN W(s, ansi_WildcardAll)
        ELSE Blank(visitSelectLoop(d, s, slt.Fields, 1))

visitHaving(d, s, having) ==
    IF s.panic # "" THEN s
    ELSE
        IF having.node = "nil" THEN s
        ELSE IF ConditionsIsEmpty(having.Conditions) THEN s
        ELSE visit("visitConditions", d, W(s, "\n" \o ansi_Having \o "\n"), having.Conditions)

RECURSIVE visitGroupByLoop(_, _, _, _)
visitGroupByLoop(d, s, fields, i) ==
    IF s.panic # "" THEN s
    ELSE
        IF i > Len(fields) THEN s
        ELSE visitGroupByLoop(d, visit("visitExp", d, IF i > 1 THEN Comma(s) ELSE s, fields[i]),
                              fields, i + 1)

visitGroupBy(d, s, groupBy) ==
    IF s.panic # "" THEN s
    ELSE
        IF groupBy.node = "nil" THEN s
        ELSE IF Len(groupBy.Fields) <= 0 THEN s
        ELSE Blank(visitGroupByLoop(d, Blank(W(LineBreak(s), ansi_GroupBy)), groupBy.Fields, 1))

RECURSIVE visitOrderByLoop(_, _, _, _)
visitOrderByLoop(d, s, fields, i) ==
    IF s.panic # "" THEN s
    ELSE
        IF i > Len(fields) THEN s
        ELSE LET s1 == visit("visitExp", d, IF i > 1 THEN Comma(s) ELSE s, fields[i].Exp)
             IN visitOrderByLoop(d, W(Blank(s1), fields[i].Direction), fields, i + 1)

visitOrderBy(d, s, orderBy) ==
    IF s.panic # "" THEN s
    ELSE
        IF orderBy.node = "nil" THEN s
        ELSE IF Len(orderBy.Fields) <= 0 THEN s
        ELSE Blank(visitOrderByLoop(d, Blank(W(LineBreak(s), ansi_OrderBy)), orderBy.Fields, 1))

\* a variant that limits the rows only when both Offset and Count are given
visitQuery_limitWhenBoth(d, s, query) ==
    IF s.panic # "" THEN s
    ELSE
        LET s1 == Blank(W(s, ansi_Select))
            s2 == IF query.IsDistinct THEN Blank(W(s1, ansi_Distinct)) ELSE s1
            s3 == visit("visitSelect", d, s2, query.Select)
            s4 == visit("visitFrom", d, s3, query.From)
            s5 == visit("visitWhere", d, s4, query.Where)
            s6 == visit("visitGroupBy", d, s5, query.GroupBy)
            s7 == IF query.GroupBy.node # "nil" /\ Len(query.GroupBy.Fields) > 0
                  THEN visit("visitHaving", d, s6, query.Having) ELSE s6
            s8 == visit("visitOrderBy", d, s7, query.OrderBy)
            s9 == IF query.Offset > 0 /\ query.Count > 0
                  THEN W(LineBreak(s8), ansi_Limit \o " " \o Itoa(query.Offset) \o ","
                                          \o Itoa(query.Count))
                  ELSE s8
        IN W(s9, ansi_StatementSplit)

visitQuery(d, s, query) ==
    IF s.panic # "" THEN s
    ELSE
        LET s1 == Blank(W(s, ansi_Select))
            s2 == IF query.IsDistinct THEN Blank(W(s1, ansi_Distinct)) ELSE s1
            s3 == visit("visitSelect", d, s2, query.Select)
            s4 == visit("visitFrom", d, s3, query.From)
            s5 == visit("visitWhere", d, s4, query.Where)
            s6 == visit("visitGroupBy", d, s5, query.GroupBy)
            s7 == IF query.GroupBy.node # "nil" /\ Len(query.GroupBy.Fields) > 0
                  THEN visit("visitHaving", d, s6, query.Having) ELSE s6
            s8 == visit("visitOrderBy", d, s7, query.OrderBy)
            s9 == IF query.Offset > 0 \/ query.Count > 0
                  THEN W(LineBreak(s8), ansi_Limit \o " " \o Itoa(query.Offset) \o ","
                                          \o Itoa(query.Count))
                  ELSE s8
        IN W(s9, ansi_StatementSplit)

RECURSIVE visitInsertColumns(_, _, _, _)
visitInsertColumns(d, s, sets, i) ==
    IF s.panic # "" THEN s
    ELSE
        IF i > Len(sets) THEN s
        ELSE visitInsertColumns(d, visit("visitColumn", d, IF i > 1 THEN Comma(s) ELSE s, sets[i].Column),
                                sets, i + 1)

RECURSIVE visitInsertValues(_, _, _, _)
visitInsertValues(d, s, sets, i) ==
    IF s.panic # "" THEN s
    ELSE
        IF i > Len(sets) THEN s
        ELSE visitInsertValues(d, visit("visitExp", d, IF i > 1 THEN Comma(s) ELSE s, sets[i].Value),
                               sets, i + 1)

visitInsert(d, s, insert) ==
    IF s.panic # "" THEN s
    ELSE
        IF insert.Table.node = "nil" THEN NilDereference(s)
        ELSE LET s1 == W(s, ansi_InsertInto \o ansi_Blank \o insert.Table.Name)
                 s2 == CloseParen(visitInsertColumns(d, OpenParen(s1), insert.Sets, 1))
                 s3 == OpenParen(W(LineBreak(s2), ansi_Values))
                 s4 == CloseParen(visitInsertValues(d, s3, insert.Sets, 1))
             IN W(s4, ansi_StatementSplit)

RECURSIVE visitUpdateSets(_, _, _, _)
visitUpdateSets(d, s, sets, i) ==
    IF s.panic # "" THEN s
    ELSE
        IF i > Len(sets) THEN s
        ELSE LET s1 == visit("visitColumn", d, IF i > 1 THEN Comma(s) ELSE s, sets[i].Column)
             IN visitUpdateSets(d, visit("visitExp", d, W(s1, ansi_Equals), sets[i].Value), sets, i + 1)

visitUpdate(d, s, u) ==
    IF s.panic # "" THEN s
    ELSE
        IF u.Table.node = "nil" THEN NilDereference(s)
        ELSE LET s1 == PrintSplit(s, ansi_Blank,
                                  <<ansi_Update, u.Table.Name, ansi_Set, ansi_LineBreak>>)
                 s2 == visitUpdateSets(d, s1, u.Sets, 1)
                 s3 == visit("visitOrderBy", d, visit("visitWhere", d, s2, u.Where), u.OrderBy)
                 s4 == IF u.Count > 0
                       THEN PrintSplit(LineBreak(s3), " ", <<ansi_Limit, Itoa(u.Count)>>)
                       ELSE s3
             IN W(s4, ansi_StatementSplit)

visitDelete(d, s, del) ==
    IF s.panic # "" THEN s
    ELSE
        IF del.Table.node = "nil" THEN NilDereference(s)
        ELSE LET s1 == PrintSplit(s, ansi_Blank, <<ansi_Delete, ansi_From, del.Table.Name>>)
                 s3 == visit("visitOrderBy", d, visit("visitWhere", d, s1, del.Where), del.OrderBy)
                 s4 == IF del.Count > 0
                       THEN PrintSplit(LineBreak(s3), " ", <<ansi_Limit, Itoa(del.Count)>>)
                       ELSE s3
             IN W(s4, ansi_StatementSplit)

visitExp(d, s, exp) ==
    IF s.panic # "" \/ exp.node = "nil" THEN s
    ELSE CASE exp.node = "Zero" -> s
           [] exp.node \in {"Text", "Procedure", "Parameter", "Output"} ->
                Panic(s, "doesn't support this expression type:" \o exp.node)
           [] exp.node \in {"Null", "Sql", "Operator"} ->
                IF ~exp.raw THEN Panic(s, "should be a RawSqler:" \o exp.node)
                ELSE W(s, exp.sql)
           [] exp.node = "Insert" -> visit("visitInsert", d, s, exp)
           [] exp.node = "Query" -> visit("visitQuery", d, s, exp)
           [] exp.node = "Update" -> visit("visitUpdate", d, s, exp)
           [] exp.node = "Delete" -> visit("visitDelete", d, s, exp)
           [] exp.node = "Value" -> visit("visitValue", d, s, exp)
           [] exp.node = "Table" -> visit("visitTable", d, s, exp)
           [] exp.node = "Column" -> visit("visitColumn", d, s, exp)
           [] exp.node = "Condition" -> visit("visitCondition", d, s, exp)
           [] exp.node = "Aggregate" -> visit("visitAggregate", d, s, exp)
           [] exp.node = "Select" -> visit("visitSelect", d, s, exp)
           [] exp.node = "From" -> visit("visitFrom", d, s, exp)
           [] exp.node = "Join" -> visit("visitJoin", d, s, exp)
           [] exp.node = "Where" -> visit("visitWhere", d, s, exp)
           [] exp.node = "GroupBy" -> visit("visitGroupBy", d, s, exp)
           [] exp.node = "Having" -> visit("visitHaving", d, s, exp)
           [] exp.node = "OrderBy" -> visit("visitOrderBy", d, s, exp)
           [] OTHER -> s

visit(method, d, s, exp) ==
    CASE method = "visitExp" -> visitExp(d, s, exp)
      [] method = "visitAggregate" -> visitAggregate(d, s, exp)
      [] method = "visitValue" -> visitValue(d, s, exp)
      [] method = "visitColumn" -> visitColumn(d, s, exp)
      [] method = "visitTable" -> visitTable(d, s, exp)
      [] method = "visitCondition" -> visitCondition(d, s, exp)
      [] method = "visitIn" -> visitIn(d, s, exp)
      [] method = "visitSlice" -> visitSlice(d, s, exp)
      [] method = "visitConditions" -> visitConditions(d, s, exp)
      [] method = "visitJoin" -> visitJoin(d, s, exp)
      [] method = "visitFrom" -> visitFrom(d, s, exp)
      [] method = "visitWhere" -> visitWhere(d, s, exp)
      [] method = "visitField" -> visitField(d, s, exp)
      [] method = "visitSelect" -> visitSelect(d, s, exp)
      [] method = "visitHaving" -> visitHaving(d, s, exp)
      [] method = "visitGroupBy" -> visitGroupBy(d, s, exp)
      [] method = "visitOrderBy" -> visitOrderBy(d, s, exp)
      [] method = "visitQuery" -> visitQuery(d, s, exp)
      [] method = "visitInsert" -> visitInsert(d, s, exp)
      [] method = "visitUpdate" -> visitUpdate(d, s, exp)
      [] method = "visitDelete" -> visitDelete(d, s, exp)

(***************************************************************************)
(* The two entry points.                                                   *)
(***************************************************************************)
StatementKinds == {"Query", "Update", "Insert", "Delete"}

\* NewStatementCompiler(dialecter): the fields of a new instance
NewStatementCompiler(d) ==
    [Dialecter |-> d, w |-> "", args |-> <<>>, paraIndex |-> 0, placeHolder |-> ""]

NoCompiler ==
    [Dialecter |-> "none", w |-> "", args |-> <<>>, paraIndex |-> 0, placeHolder |-> ""]

\* the instance's fields as a call leaves them
Fields(c, s) ==
    [c EXCEPT !.w = s.w, !.args = s.args, !.paraIndex = s.paraIndex,
              !.placeHolder = s.placeHolder]

\* StatementCompiler.Compile on the instance c: the instance afterwards and
\* what the call returns
StatementCompilerCompile(c, exp) ==
    LET d == c.Dialecter
        s0 == [w |-> "", args |-> c.args, paraIndex |-> c.paraIndex,
               placeHolder |-> ParameterPlaceHolder(d), panic |-> "", ph |-> <<>>]
    IN IF exp.node = "nil"
       THEN [sc |-> Fields(c, s0),
             ret |-> Panicked("invalid memory address or nil pointer dereference")]
       ELSE LET s1 == CASE exp.node = "Query" -> visit("visitQuery", d, s0, exp)
                        [] exp.node = "Update" -> visit("visitUpdate", d, s0, exp)
                        [] exp.node = "Insert" -> visit("visitInsert", d, s0, exp)
                        [] exp.node = "Delete" -> visit("visitDelete", d, s0, exp)
                        [] OTHER -> s0
                err == IF exp.node \in StatementKinds THEN NoError
                       ELSE NewError("doesn't support expression type:", exp.node)
            IN [sc |-> Fields(c, s1),
                ret |-> IF s1.panic # "" THEN Panicked(s1.panic)
                        ELSE IF err # NoError THEN Returned("", <<>>, err, s1.ph)
                        ELSE Returned(s1.w, s1.args, NoError, s1.ph)]

\* AnsiDriver.Compile of the driver whose Dialecter is d
AnsiDriverCompile(d, exp) ==
    IF exp.node = "nil"
    THEN Returned("", <<>>, NewError("compile expression is nil", ""), <<>>)
    ELSE CASE exp.node = "Text" -> compileText(d, exp)
           [] exp.node = "Procedure" -> compileProcedure(d, exp)
           [] exp.node \in StatementKinds ->
                StatementCompilerCompile(NewStatementCompiler(d), exp).ret
           [] OTHER ->
                Returned("", <<>>, NewError("compile expression does support type:", exp.node),
                         <<>>)

(***************************************************************************)
(* The expressions the calls are given.                                    *)
(***************************************************************************)
SeqsUpTo(S, n) == UNION {[1..k -> S] : k \in 0..n}

\* --- values
IntElem(i) == CASE i = 1 -> 7 [] i = 2 -> 42 [] i = 3 -> 0 - 3 [] OTHER -> 100 + i

StrElem(i) == "s" \o Itoa(i)

IntSlice(type, k) == Slice(type, [i \in 1..k |-> IntElem(i)])

StrSlice(k) == Slice("[]string", [i \in 1..k |-> StrElem(i)])

Scalars == {Nil, IntV(1), StrV("s")}

Collections ==
    {IntSlice("[]int", k) : k \in 0..MaxSlice}
    \cup {StrSlice(k) : k \in 0..MaxSlice}
    \cup {IntSlice("[]int64", 2), IntSlice("[]float32", 2), IntSlice("[]float64", 2),
          Slice("[]interface{}", <<IntV(5), Nil, StrV("x")>>),
          Slice("[]other", <<IntV(5), IntV(6)>>),
          Slice("[n]other", <<IntV(8)>>)}

\* --- nodes
Value(v) == [node |-> "Value", Value |-> v]
Column(name) == [node |-> "Column", name |-> name]
Table(name, alias) == [node |-> "Table", Name |-> name, Alias |-> alias]
Condition(left, op, right) == [node |-> "Condition", Left |-> left, Op |-> op, Right |-> right]
Aggregate(name, exp) == [node |-> "Aggregate", Name |-> name, Exp |-> exp]
Raw(node, sql) == [node |-> node, raw |-> TRUE, sql |-> sql]
NotRaw(node) == [node |-> node, raw |-> FALSE, sql |-> ""]
Field(exp, alias) == [node |-> "Field", Exp |-> exp, Alias |-> alias]
Conditions(items) == [node |-> "Conditions", Conditions |-> items]
Where(conditions) == [node |-> "Where", Conditions |-> conditions]
Having(conditions) == [node |-> "Having", Conditions |-> conditions]
GroupBy(fields) == [node |-> "GroupBy", Fields |-> fields]
OrderBy(fields) == [node |-> "OrderBy", Fields |-> fields]
Select(fields) == [node |-> "Select", Fields |-> fields]
From(table, tables, joins) ==
    [node |-> "From", Table |-> table, Tables |-> tables, Joins |-> joins]
Join(type, right, conditions) ==
    [node |-> "Join", JoinType |-> type, Right |-> right, Conditions |-> conditions]
Text(sql, parameters) ==
    [node |-> "Text", isNil |-> FALSE, Sql |-> sql, Parameters |-> parameters]
Procedure(name, parameters) ==
    [node |-> "Procedure", isNil |-> FALSE, Name |-> name, Parameters |-> parameters]
Parameter(name, dir, v) == [node |-> "Parameter", Name |-> name, Dir |-> dir, Value |-> v]
Insert(table, sets) == [node |-> "Insert", Table |-> table, Sets |-> sets]
Update(table, sets, where, orderBy, count) ==
    [node |-> "Update", Table |-> table, Sets |-> sets, Where |-> where,
     OrderBy |-> orderBy, Count |-> count]
Delete(table, where, orderBy, count) ==
    [node |-> "Delete", Table |-> table, Where |-> where, OrderBy |-> orderBy,
     Count |-> count]
Query(distinct, select, from, where, groupBy, having, orderBy, offset, count) ==
    [node |-> "Query", IsDistinct |-> distinct, Select |-> select, From |-> from,
     Where |-> where, GroupBy |-> groupBy, Having |-> having, OrderBy |-> orderBy,
     Offset |-> offset, Count |-> count]

\* an Expression whose Node() is NodeText / NodeProcedure but that is no *Text / *Procedure
TextNil == [node |-> "Text", isNil |-> TRUE, Sql |-> <<>>, Parameters |-> <<>>]
ProcedureNil == [node |-> "Procedure", isNil |-> TRUE, Name |-> "", Parameters |-> <<>>]

\* --- template texts
Alphabet == {"{", "}", " ", "p", "q"}

ReadmeSql ==
    <<"s", "e", "l", "e", "c", "t", " ", "*", " ", "f", "r", "o", "m", " ", "t", " ",
      "w", "h", "e", "r", "e", " ", "c", " ", ">", " ", "{", "p", "}">>

LongerSqls ==
    {ReadmeSql,
     <<"{", "p", "}", "{", "q", "}">>,
     <<"{", "q", "}", ",", "{", "p", "}", ",", "{", "p", "}">>,
     <<"a", "{", " ", "p", " ", "}", "b">>,
     <<"{", "p", "}", "{", "}">>,
     <<"{", "p", "}", "a", "{", "q">>,
     <<"{", "p", "}", "{", "x", "}">>,
     <<"{", "{", "p", "}", "}">>}

Sqls == SeqsUpTo(Alphabet, MaxLen) \cup LongerSqls

ParameterSets ==
    {<<>>,
     <<[Name |-> "p", Value |-> IntV(1)]>>,
     <<[Name |-> "p", Value |-> IntV(1)], [Name |-> "q", Value |-> StrV("s")]>>}

Texts == {Text(sql, ps) : sql \in Sqls, ps \in ParameterSets} \cup {TextNil}

\* --- procedures
Dirs == {"In", "Out", "InOut", "Return"}

ProcParameters ==
    UNION {{[i \in 1..k |-> Parameter("p" \o Itoa(i), dirs[i], IntV(i))] :
              dirs \in [1..k -> Dirs]} : k \in 0..MaxParams}

Procedures ==
    {Procedure(name, ps) : name \in {"sp", ""}, ps \in ProcParameters} \cup {ProcedureNil}

\* --- the parts of statements
c1 == Column("c")

t1 == Table("t", "")

Output == [node |-> "Output"]

Unsupported ==
    {Text(<<"x">>, <<>>), Procedure("sp", <<>>), Parameter("p", "In", IntV(1)), Output}

LeafExps ==
    {NilExp, [node |-> "Zero"], Value(Nil), Value(IntV(1)), Value(IntV(2)), Value(StrV("s")),
     c1, Raw("Null", "NULL"), NotRaw("Sql")} \cup Unsupported

SetValues ==
    {NilExp, Value(Nil), Value(IntV(1)), Value(StrV("s")), c1, Parameter("p", "In", IntV(1)),
     Raw("Null", "NULL"), NotRaw("Operator")}

InConditions ==
    {Condition(c1, op, Value(v)) : op \in {In, NotIn}, v \in Scalars \cup Collections}
    \cup {Condition(c1, In, c1), Condition(c1, NotIn, Output),
          Condition(Value(IntV(2)), In, Value(StrSlice(2)))}

BinaryConditions ==
    {Condition(l, "=", r) : l \in {c1, Value(IntV(2))}, r \in LeafExps \ {NilExp}}

UnaryConditions ==
    {Condition(NilExp, "NOT", Value(IntV(1))), Condition(c1, "IS NULL", NilExp),
     Condition(NilExp, "1=1", NilExp), Condition(Value(StrV("s")), "IS NOT NULL", NilExp)}

AllConditions == InConditions \cup BinaryConditions \cup UnaryConditions

GroupedConditions ==
    <<OpenParentheses, Condition(c1, "=", Value(IntV(1))), Raw("Operator", "OR"),
      Condition(c1, In, Value(StrSlice(2))), CloseParentheses, Raw("Operator", "AND"),
      NilExp, Condition(c1, "<>", Value(Nil)), Condition(c1, ">", Value(IntV(2)))>>

Wheres ==
    {NilExp, Where(NilExp), Where(Conditions(<<>>)), Where(Conditions(GroupedConditions))}
    \cup {Where(Conditions(<<c>>)) : c \in AllConditions}

SetOf(e) == [Column |-> c1, Value |-> e]

byC == OrderBy(<<[Exp |-> c1, Direction |-> "ASC"]>>)

byValue == OrderBy(<<[Exp |-> c1, Direction |-> "ASC"],
                     [Exp |-> Value(IntV(2)), Direction |-> "DESC"]>>)

\* --- statements
Inserts ==
    {Insert(t1, sets) : sets \in SeqsUpTo({SetOf(e) : e \in SetValues}, MaxSets)}
    \cup {Insert(t, sets) : t \in {NilExp, Table("", ""), Table("t", "a")},
                            sets \in {<<>>, <<SetOf(Value(IntV(1)))>>}}

Updates ==
    {Update(t1, <<SetOf(Value(StrV("u")))>>, w, NilExp, 0) : w \in Wheres}
    \cup {Update(t, sets, NilExp, ob, n) :
            t \in {NilExp, Table("", ""), t1},
            sets \in {<<>>, <<SetOf(Value(IntV(1))), SetOf(Value(Nil))>>},
            ob \in {NilExp, byValue}, n \in {0, 5}}

Deletes ==
    {Delete(t, w, ob, n) :
        t \in {NilExp, Table("", ""), t1},
        w \in {NilExp, Where(Conditions(<<Condition(c1, "=", Value(IntV(1)))>>)),
               Where(Conditions(<<Condition(c1, "=", Output)>>))},
        ob \in {NilExp, byValue}, n \in {0, 5}}

joined ==
    From(Table("t", "a"), <<Table("", "b"), Table("", "")>>,
         <<Join("LEFT JOIN", Table("u", ""),
                Conditions(<<Condition(Column("a.c"), "=", Value(IntV(3)))>>)),
           Join("INNER JOIN", Table("v", ""), NilExp)>>)

Selects ==
    {NilExp, Select(<<Field(c1, "")>>),
     Select(<<Field(Value(IntV(1)), "a"), NilExp, Field(Aggregate("COUNT", c1), "")>>)}

Queries ==
    {Query(FALSE, sl, fr, w, gb, hv, ob, lim[1], lim[2]) :
        sl \in Selects,
        fr \in {NilExp, From(t1, <<>>, <<>>), joined},
        w \in {NilExp, Where(Conditions(<<Condition(c1, In, Value(StrSlice(2)))>>))},
        gb \in {NilExp, GroupBy(<<c1>>)},
        hv \in {NilExp, Having(Conditions(<<Condition(c1, ">", Value(IntV(2)))>>))},
        ob \in {NilExp, byC},
        lim \in {<<0, 0>>, <<10, 5>>, <<0, 5>>, <<10, 0>>}}
    \cup {Query(TRUE, sl, From(t1, <<>>, <<>>), NilExp, NilExp, NilExp, NilExp, 0, 0) :
            sl \in Selects \cup {Select(<<Field(e, "")>>) : e \in Unsupported}}
    \cup {Query(FALSE, NilExp, From(t1, <<>>, <<>>), w, NilExp, NilExp, NilExp, 0, 0) :
            w \in Wheres}

Statements == Inserts \cup Updates \cup Deletes \cup Queries

\* what AnsiDriver.Compile is called with
DriverExps ==
    {NilExp, Value(IntV(1)), c1, Output, Parameter("p", "In", IntV(1)),
     Condition(c1, "=", Value(IntV(1)))}
    \cup Texts \cup Procedures \cup Statements

\* what StatementCompiler.Compile is called with directly
DirectExps ==
    {NilExp, Value(IntV(1)), Text(<<"x">>, <<>>), ProcedureNil,
     Insert(NilExp, <<>>), Insert(t1, <<SetOf(Output)>>),
     Query(FALSE, NilExp, From(t1, <<>>, <<>>),
           Where(Conditions(<<Condition(c1, In, Value(StrSlice(2)))>>)),
           NilExp, NilExp, NilExp, 0, 0)}
    \cup {Insert(t1, sets) :
            sets \in SeqsUpTo({SetOf(Value(v)) : v \in Scalars}, MaxSets)}

(***************************************************************************)
(* The registries.  A Go map[string]T is a function whose domain is the    *)
(* keys present; a Compiler is the AnsiDriver it points to, a Dialecter    *)
(* the name of its implementation; NilDialecter and NilCompiler are the    *)
(* nil interface values.                                                   *)
(***************************************************************************)
\* make(map[string]T)
EmptyMap == [k \in {} |-> ""]

\* a variant of the map assignment that keeps the entry a key already has
MapSet_keepFirst(m, key, v) ==
    IF key \in DOMAIN m THEN m
    ELSE [k \in DOMAIN m \cup {key} |-> IF k = key THEN v ELSE m[k]]

\* m[key] = v
MapSet(m, key, v) == [k \in DOMAIN m \cup {key} |-> IF k = key THEN v ELSE m[k]]

NilDialecter == "nil"

NilCompiler == [kind |-> "nil", Dialecter |-> NilDialecter]

NewAnsiDriver(dialecter) == [kind |-> "AnsiDriver", Dialecter |-> dialecter]

\* RegisterDialecter / RegisterCompiler: the map afterwards, or a panic
RegisterDialecter(m, driver, dialecter) ==
    IF dialecter = NilDialecter THEN [panic |-> "register dialecter is nil", m |-> m]
    ELSE [panic |-> "", m |-> MapSet(m, driver, dialecter)]

RegisterCompiler(m, driver, compiler) ==
    IF compiler = NilCompiler THEN [panic |-> "register compiler is nil", m |-> m]
    ELSE [panic |-> "", m |-> MapSet(m, driver, compiler)]

\* GetDialecter / GetCompiler: the value and the error returned
GetDialecter(m, driver) ==
    IF driver \notin DOMAIN m
    THEN [value |-> NilDialecter, err |-> NewError("can not get dialecter:", driver)]
    ELSE [value |-> m[driver], err |-> NoError]

GetCompiler(m, driver) ==
    IF driver \notin DOMAIN m
    THEN [value |-> NilCompiler, err |-> NewError("can not get compiler:", driver)]
    ELSE [value |-> m[driver], err |-> NoError]

\* the registrations of the package's init(), in the order it makes them
initCalls ==
    <<[registry |-> "dialecters", key |-> "ansi", dialecter |-> "ansi",
       compiler |-> NilCompiler],
      [registry |-> "compilers", key |-> "ansi", dialecter |-> NilDialecter,
       compiler |-> NewAnsiDriver("ansi")],
      [registry |-> "dialecters", key |-> "mysql", dialecter |-> "mysql",
       compiler |-> NilCompiler],
      [registry |-> "compilers", key |-> "mysql", dialecter |-> NilDialecter,
       compiler |-> NewAnsiDriver("mysql")],
      [registry |-> "dialecters", key |-> "postgres", dialecter |-> "postgres",
       compiler |-> NilCompiler],
      [registry |-> "compilers", key |-> "postgres", dialecter |-> NilDialecter,
       compiler |-> NewAnsiDriver("postgres")]>>

\* the two maps after the first n registrations of init()
RECURSIVE initUpTo(_)
initUpTo(n) ==
    IF n = 0 THEN [dialecters |-> EmptyMap, compilers |-> EmptyMap]
    ELSE LET r == initUpTo(n - 1)
             c == initCalls[n]
         IN IF c.registry = "dialecters"
            THEN [r EXCEPT !.dialecters = RegisterDialecter(@, c.key, c.dialecter).m]
            ELSE [r EXCEPT !.compilers = RegisterCompiler(@, c.key, c.compiler).m]

\* the two maps when init() has run
init == initUpTo(Len(initCalls))

\* the last call made on the registries and what it returned
NoLookup ==
    [op |-> "none", key |-> "", dialecter |-> NilDialecter, compiler |-> NilCompiler,
     err |-> NoError, outcome |-> "none"]

(***************************************************************************)
(* Concurrent callers.  heap holds the StatementCompiler objects the calls *)
(* in progress allocated, by address; a slot that holds NoCompiler is      *)
(* free.                                                                   *)
(***************************************************************************)
Procs == 1..NProcs

EmptyHeap == [a \in Procs |-> NoCompiler]

\* an allocation that hands out the address of one and the same object
Alloc_shared(h) == CHOOSE a \in DOMAIN h : \A b \in DOMAIN h : a <= b

\* &StatementCompiler{...}: the address of a new object
Alloc(h) ==
    CHOOSE a \in DOMAIN h :
        h[a] = NoCompiler /\ \A b \in DOMAIN h : h[b] = NoCompiler => a <= b

\* a goroutine that is not in a call
IdleProc ==
    [pc |-> "idle", key |-> "", exp |-> NilExp, sc |-> 0, err |-> NoError,
     result |-> NoCall]

\* the keys the concurrent callers look their driver up by
SharedKeys == {"ansi", "postgres"}

\* what the concurrent callers compile
ConcurrentExps ==
    {NilExp,
     Text(ReadmeSql, <<[Name |-> "p", Value |-> IntV(1)]>>),
     Procedure("sp", <<Parameter("p1", "In", IntV(1)), Parameter("p2", "Out", IntV(2))>>),
     Insert(t1, <<SetOf(Value(IntV(1)))>>),
     Insert(t1, <<SetOf(Value(StrV("s"))), SetOf(Value(IntV(2)))>>),
     Insert(t1, <<SetOf(Output)>>),
     Query(FALSE, NilExp, From(t1, <<>>, <<>>),
           Where(Conditions(<<Condition(c1, In, Value(StrSlice(2)))>>)),
           NilExp, NilExp, NilExp, 0, 5)}

(***************************************************************************)
(* The state machine.  A caller makes one call at a time: call is the call *)
(* in hand and what it was made with, ret what it returned, sc the         *)
(* StatementCompiler instance the caller keeps for its direct calls.  The  *)
(* caller either goes through the driver, which builds a compiler of its   *)
(* own for every call, or builds one compiler and keeps calling it.        *)
(***************************************************************************)
Idle == [entry |-> "none", Dialecter |-> "none", exp |-> NilExp, held |-> <<>>, paraIndex |-> 0]

\* the registries when the package's init() has run, nobody in a call
Started ==
    /\ dialecters = init.dialecters
    /\ compilers = init.compilers
    /\ registered = initCalls
    /\ got = NoLookup

NoProcs ==
    /\ procs = [p \in Procs |-> IdleProc]
    /\ heap = EmptyHeap

Init ==
    /\ call = Idle
    /\ ret = NoCall
    /\ sc = NoCompiler
    /\ Started
    /\ NoProcs

AnsiDriver_Compile ==
    /\ call = Idle
    /\ sc = NoCompiler
    /\ \E d \in Dialecters, exp \in DriverExps :
         /\ call' = [entry |-> "AnsiDriver.Compile", Dialecter |-> d, exp |-> exp,
                     held |-> <<>>, paraIndex |-> 0]
         /\ ret' = AnsiDriverCompile(d, exp)
    /\ UNCHANGED <<sc, registry, concurrent>>

New_StatementCompiler ==
    /\ call = Idle
    /\ sc = NoCompiler
    /\ \E d \in Dialecters : sc' = NewStatementCompiler(d)
    /\ UNCHANGED <<call, ret, registry, concurrent>>

StatementCompiler_Compile ==
    /\ call = Idle
    /\ sc # NoCompiler
    /\ Len(sc.args) <= MaxHeld
    /\ \E exp \in DirectExps :
         LET r == StatementCompilerCompile(sc, exp)
         IN /\ call' = [entry |-> "StatementCompiler.Compile", Dialecter |-> sc.Dialecter,
                        exp |-> exp, held |-> sc.args, paraIndex |-> sc.paraIndex]
            /\ ret' = r.ret
            /\ sc' = r.sc
    /\ UNCHANGED <<registry, concurrent>>

\* the caller takes the result; a panic has aborted the process
Return ==
    /\ call # Idle
    /\ ret.outcome = "returned"
    /\ call' = Idle
    /\ ret' = NoCall
    /\ UNCHANGED <<sc, registry, concurrent>>

Next == AnsiDriver_Compile \/ New_StatementCompiler \/ StatementCompiler_Compile \/ Return

Spec == Init /\ [][Next]_vars

(***************************************************************************)
(* The registries' state machine.  The package's init() runs before any    *)
(* other call; after it a caller registers and looks up, one call at a     *)
(* time.  registered is a history: every registration that took effect,    *)
(* in order.  got is the last call and what it returned; a panic has       *)
(* aborted the process.                                                    *)
(***************************************************************************)
RegistryKeys == {"ansi", "mysql", "postgres", "mssql"}

\* what a caller registers
RegisteredDialecters == {"named", "mysql", NilDialecter}

RegisteredCompilers == {NewAnsiDriver("named"), NewAnsiDriver("mysql"), NilCompiler}

RegistryInit ==
    /\ call = Idle
    /\ ret = NoCall
    /\ sc = NoCompiler
    /\ dialecters = EmptyMap
    /\ compilers = EmptyMap
    /\ registered = <<>>
    /\ got = NoLookup
    /\ NoProcs

\* init() has run, the process is alive and may register once more
CanRegister ==
    /\ registered # <<>>
    /\ got.outcome # "panic"
    /\ Len(registered) < Len(initCalls) + MaxRegistrations

Package_init ==
    /\ registered = <<>>
    /\ dialecters' = init.dialecters
    /\ compilers' = init.compilers
    /\ registered' = initCalls
    /\ got' = [NoLookup EXCEPT !.op = "init", !.outcome = "returned"]
    /\ UNCHANGED <<call, ret, sc, concurrent>>

Register_Dialecter ==
    /\ CanRegister
    /\ \E key \in RegistryKeys, dialecter \in RegisteredDialecters :
         LET r == RegisterDialecter(dialecters, key, dialecter)
         IN /\ dialecters' = r.m
            /\ registered' =
                 IF r.panic # "" THEN registered
                 ELSE Append(registered,
                             [registry |-> "dialecters", key |-> key,
                              dialecter |-> dialecter, compiler |-> NilCompiler])
            /\ got' = [NoLookup EXCEPT !.op = "RegisterDialecter", !.key = key,
                                       !.outcome = IF r.panic # "" THEN "panic"
                                                   ELSE "returned"]
    /\ UNCHANGED <<call, ret, sc, compilers, concurrent>>

Register_Compiler ==
    /\ CanRegister
    /\ \E key \in RegistryKeys, compiler \in RegisteredCompilers :
         LET r == RegisterCompiler(compilers, key, compiler)
         IN /\ compilers' = r.m
            /\ registered' =
                 IF r.panic # "" THEN registered
                 ELSE Append(registered,
                             [registry |-> "compilers", key |-> key,
                              dialecter |-> NilDialecter, compiler |-> compiler])
            /\ got' = [NoLookup EXCEPT !.op = "RegisterCompiler", !.key = key,
                                       !.outcome = IF r.panic # "" THEN "panic"
                                                   ELSE "returned"]
    /\ UNCHANGED <<call, ret, sc, dialecters, concurrent>>

Get_Dialecter ==
    /\ registered # <<>>
    /\ got.outcome # "panic"
    /\ \E key \in RegistryKeys :
         LET r == GetDialecter(dialecters, key)
         IN got' = [NoLookup EXCEPT !.op = "GetDialecter", !.key = key,
                                    !.dialecter = r.value, !.err = r.err,
                                    !.outcome = "returned"]
    /\ UNCHANGED <<call, ret, sc, dialecters, compilers, registered, concurrent>>

Get_Compiler ==
    /\ registered # <<>>
    /\ got.outcome # "panic"
    /\ \E key \in RegistryKeys :
         LET r == GetCompiler(compilers, key)
         IN got' = [NoLookup EXCEPT !.op = "GetCompiler", !.key = key,
                                    !.compiler = r.value, !.err = r.err,
                                    !.outcome = "returned"]
    /\ UNCHANGED <<call, ret, sc, dialecters, compilers, registered, concurrent>>

RegistryNext ==
    Package_init \/ Register_Dialecter \/ Register_Compiler \/ Get_Dialecter \/ Get_Compiler

RegistrySpec == RegistryInit /\ [][RegistryNext]_vars

(***************************************************************************)
(* Concurrent calls of Compile on the drivers the registry holds, all      *)
(* registration done.  Every goroutine looks its driver up by key, calls   *)
(* its Compile and takes the result; the steps of the calls interleave.    *)
(* A call that compiles a statement allocates a StatementCompiler, lets    *)
(* it write and visit, and then reads its text and arguments.  A panic in  *)
(* one goroutine ends the process.                                         *)
(***************************************************************************)
Alive == \A p \in Procs : procs[p].pc # "panic"

\* go driver.Compile(source, exp)
Go_Compile ==
    /\ Alive
    /\ \E p \in Procs, key \in SharedKeys, exp \in ConcurrentExps :
         /\ procs[p].pc = "idle"
         /\ GetCompiler(compilers, key).err = NoError
         /\ procs' = [procs EXCEPT ![p] = [IdleProc EXCEPT !.pc = "Compile", !.key = key,
                                                           !.exp = exp]]
    /\ UNCHANGED <<call, ret, sc, registry, heap>>

\* AnsiDriver.Compile up to its switch: a statement gets a new compiler,
\* anything else is compiled with the call's own locals
Compile_Dispatch ==
    /\ Alive
    /\ \E p \in Procs :
         LET me == procs[p]
             d == compilers[me.key].Dialecter
         IN /\ me.pc = "Compile"
            /\ IF me.exp.node \in StatementKinds
               THEN LET a == Alloc(heap)
                    IN /\ heap' = [heap EXCEPT ![a] = NewStatementCompiler(d)]
                       /\ procs' = [procs EXCEPT ![p].pc = "visit", ![p].sc = a]
               ELSE /\ procs' = [procs EXCEPT ![p].pc = "returned",
                                              ![p].result = AnsiDriverCompile(d, me.exp)]
                    /\ UNCHANGED heap
    /\ UNCHANGED <<call, ret, sc, registry>>

\* StatementCompiler.Compile up to the end of its switch, on the call's compiler
Compile_Visit ==
    /\ Alive
    /\ \E p \in Procs :
         LET me == procs[p]
             r == StatementCompilerCompile(heap[me.sc], me.exp)
         IN /\ me.pc = "visit"
            /\ heap' = [heap EXCEPT ![me.sc] = r.sc]
            /\ procs' = [procs EXCEPT ![p].pc = IF r.ret.outcome = "panic" THEN "panic"
                                                ELSE "results",
                                      ![p].err = r.ret.err]
    /\ UNCHANGED <<call, ret, sc, registry>>

\* the end of StatementCompiler.Compile: the results are read from the compiler
Compile_Results ==
    /\ Alive
    /\ \E p \in Procs :
         LET me == procs[p]
         IN /\ me.pc = "results"
            /\ procs' = [procs EXCEPT
                           ![p].pc = "returned",
                           ![p].result = IF me.err # NoError
                                         THEN Returned("", <<>>, me.err, <<>>)
                                         ELSE Returned(heap[me.sc].w, heap[me.sc].args,
                                                       NoError, <<>>)]
    /\ UNCHANGED <<call, ret, sc, registry, heap>>

\* the caller takes the result; the compiler of the call is garbage
Compile_Return ==
    /\ Alive
    /\ \E p \in Procs :
         /\ procs[p].pc = "returned"
         /\ procs' = [procs EXCEPT ![p] = IdleProc]
         /\ heap' = IF procs[p].sc = 0 THEN heap
                    ELSE [heap EXCEPT ![procs[p].sc] = NoCompiler]
    /\ UNCHANGED <<call, ret, sc, registry>>

ConcurrentNext ==
    Go_Compile \/ Compile_Dispatch \/ Compile_Visit \/ Compile_Results \/ Compile_Return

ConcurrentSpec == Init /\ [][ConcurrentNext]_vars

(***************************************************************************)
(* The properties.  The error kinds of the specification are told apart    *)
(* by the messages the code gives its errors.                              *)
(***************************************************************************)
InvalidArgument ==
    {"compile expression is nil", "text is nil or sql of text is empty",
     "procedure is nil or name of procedure is empty"}

UnsupportedExpression ==
    {"compile expression does support type:", "doesn't support expression type:"}

UnknownParameter == {"text can not find parameter:"}

MalformedTemplate == {"text sql format is invalid"}

\* a call is in hand
Called == call.entry # "none"

\* the call returned an error of that kind
Failed(kind) == ret.outcome = "returned" /\ ret.err.msg \in kind

\* the call returned a nil error
Succeeded == ret.outcome = "returned" /\ ret.err = NoError

\* the sub-expressions of a node, left to right; rendered leaves out those the
\* statement's text never renders (a Having without a GroupBy field, the
\* operand of an Aggregate without a name)
SubExps(exp, rendered) ==
    CASE exp.node = "Query" ->
           <<exp.Select, exp.From, exp.Where, exp.GroupBy>>
           \o (IF rendered /\ (exp.GroupBy.node = "nil" \/ exp.GroupBy.Fields = <<>>)
               THEN <<>> ELSE <<exp.Having>>)
           \o <<exp.OrderBy>>
      [] exp.node = "Insert" -> [i \in 1..Len(exp.Sets) |-> exp.Sets[i].Value]
      [] exp.node = "Update" ->
           [i \in 1..Len(exp.Sets) |-> exp.Sets[i].Value] \o <<exp.Where, exp.OrderBy>>
      [] exp.node = "Delete" -> <<exp.Where, exp.OrderBy>>
      [] exp.node = "Select" -> exp.Fields
      [] exp.node = "Field" -> <<exp.Exp>>
      [] exp.node = "From" -> <<exp.Table>> \o exp.Tables \o exp.Joins
      [] exp.node \in {"Join", "Where", "Having"} ->
           IF exp.Conditions.node = "nil" THEN <<>> ELSE exp.Conditions.Conditions
      [] exp.node = "GroupBy" -> exp.Fields
      [] exp.node = "OrderBy" -> [i \in 1..Len(exp.Fields) |-> exp.Fields[i].Exp]
      [] exp.node = "Condition" -> <<exp.Left, exp.Right>>
      [] exp.node = "Aggregate" -> IF rendered /\ exp.Name = "" THEN <<>> ELSE <<exp.Exp>>
      [] OTHER -> <<>>

NotNil(v) == v.t # "nil"

\* what the payload v of a Value on the right of IN / NOT IN binds
InBinds(v) ==
    CASE v.t = "nil" -> <<>>
      [] v.t \in {"[]int", "[]int64", "[]float32", "[]float64"} -> <<>>
      [] v.t = "[]string" -> [i \in 1..Len(v.v) |-> StrV(v.v[i])]
      [] v.t \in {"[]interface{}", "[]other", "[n]other"} -> SelectSeq(v.v, NotNil)
      [] OTHER -> <<v>>

\* The values of the tree of exp in pre-order.  With asCompiled FALSE, one
\* entry for every Value leaf, its payload.  With asCompiled TRUE, what the
\* statement binds: nothing for a nil payload, and for a Value on the right
\* of IN / NOT IN the elements of its collection (InBinds).
RECURSIVE Binds(_, _)
RECURSIVE BindsAll(_, _)
BindsAll(exps, asCompiled) ==
    IF exps = <<>> THEN <<>>
    ELSE Binds(Head(exps), asCompiled) \o BindsAll(Tail(exps), asCompiled)

Binds(exp, asCompiled) ==
    IF exp.node = "Value"
    THEN IF asCompiled /\ exp.Value.t = "nil" THEN <<>> ELSE <<exp.Value>>
    ELSE IF /\ asCompiled
            /\ exp.node = "Condition"
            /\ exp.Op \in {In, NotIn}
            /\ exp.Left.node # "nil"
            /\ exp.Right.node = "Value"
    THEN Binds(exp.Left, asCompiled) \o InBinds(exp.Right.Value)
    ELSE BindsAll(SubExps(exp, asCompiled), asCompiled)

\* C1: compiling a nil expression through either entry point, AnsiDriver.Compile
\* or StatementCompiler.Compile, returns an InvalidArgument error and never
\* panics.
C1_NilExpressionIsInvalidArgument ==
    (Called /\ call.exp.node = "nil") => Failed(InvalidArgument)

ParameterNames(exp) ==
    IF exp.node = "Text"
    THEN {exp.Parameters[i].Name : i \in 1..Len(exp.Parameters)}
    ELSE {}

\* C3: the placeholders a statement or a template text compiles to have the
\* form the dialect fixes: token and parameter name with named parameters,
\* token and 1, 2, ... with indexed parameters, the bare token otherwise.
C3_PlaceholderFormFollowsDialect ==
    (Called /\ Succeeded /\ call.exp.node \in StatementKinds \cup {"Text"})
        => LET token == ParameterPlaceHolder(call.Dialecter)
           IN \A i \in 1..Len(ret.ph) :
                CASE SupportNamedParameter(call.Dialecter) ->
                       ret.ph[i] \in {token \o n : n \in ParameterNames(call.exp)}
                  [] SupportIndexedParameter(call.Dialecter) ->
                       ret.ph[i] = token \o Itoa(i)
                  [] OTHER -> ret.ph[i] = token

\* SELECT * FROM t WHERE c <op> (<v>)
InQuery(op, v) ==
    Query(FALSE, NilExp, From(t1, <<>>, <<>>),
          Where(Conditions(<<Condition(c1, op, Value(v))>>)), NilExp, NilExp, NilExp, 0, 0)

\* C4: IN / NOT IN over a Value holding an integer sequence of length k
\* renders the right side as a parenthesized comma-separated list of k
\* placeholders and binds the k elements in sequence order; the empty
\* sequence renders () and binds nothing.
C4_InOverIntegersBindsEachElement ==
    \A k \in 0..MaxSlice, op \in {In, NotIn} :
        (/\ Called
         /\ call.held = <<>>
         /\ call.exp.node = "Query"
         /\ call.exp = InQuery(op, IntSlice("[]int", k))
         /\ ret.outcome = "returned")
            => /\ ret.err = NoError
               /\ ret.args = [i \in 1..k |-> IntV(IntElem(i))]
               /\ Len(ret.ph) = k
               /\ ret.query = "SELECT *\nFROM t \nWHERE\nc " \o op \o " ("
                                 \o JoinSplit(",", ret.ph) \o ") ;"

\* C5: the template "select * from t where c > {p}" with p = 1 compiles to
\* the text with {p} replaced by exactly the dialect's placeholder,
\* "select * from t where c > ?" for ANSI and "select * from t where c > $1"
\* for PostgreSQL, and to the argument list [1].
C5_TemplateReplacesByExactlyTheToken ==
    (/\ Called
     /\ call.exp.node = "Text"
     /\ call.exp.Sql = ReadmeSql
     /\ call.exp.Parameters = <<[Name |-> "p", Value |-> IntV(1)]>>
     /\ call.entry = "AnsiDriver.Compile")
        => /\ Succeeded
           /\ ret.args = <<IntV(1)>>
           /\ call.Dialecter = "ansi" => ret.query = "select * from t where c > ?"
           /\ call.Dialecter = "postgres" => ret.query = "select * from t where c > $1"

\* the text holds a {identifier} whose trimmed identifier the text does not
\* declare
RefersUndeclared(text) ==
    \E i, j \in 1..Len(text.Sql) :
        /\ i < j
        /\ text.Sql[i] = "{"
        /\ text.Sql[j] = "}"
        /\ \A k \in (i + 1)..(j - 1) : text.Sql[k] \notin {"{", "}"}
        /\ String(TrimSpace(SubSeq(text.Sql, i + 1, j - 1))) \notin ParameterNames(text)

\* C6: a template text that holds a {identifier} whose trimmed identifier is
\* not in its parameter set fails with UnknownParameter, whatever the
\* parameter set, the empty one included.
C6_UndeclaredIsUnknownParameter ==
    (/\ Called
     /\ call.entry = "AnsiDriver.Compile"
     /\ call.exp.node = "Text"
     /\ RefersUndeclared(call.exp))
        => Failed(UnknownParameter)

\* the two-state scanner would end inside a brace: some "{" has no "}" after it
UnclosedBrace(b) ==
    \E i \in 1..Len(b) : b[i] = "{" /\ \A j \in (i + 1)..Len(b) : b[j] # "}"

\* C7: a template text is reported malformed only if an opened brace has no
\* close ("{}" is not malformed), and is reported malformed if one has none
\* and no lookup failed before the end of the text.
C7_MalformedExactlyWhenUnclosed ==
    (Called /\ call.entry = "AnsiDriver.Compile" /\ call.exp.node = "Text")
        => /\ Failed(MalformedTemplate) => UnclosedBrace(call.exp.Sql)
           /\ (UnclosedBrace(call.exp.Sql) /\ ~RefersUndeclared(call.exp))
                  => Failed(MalformedTemplate)

\* C8: whenever an entry point returns a non-nil error, the query it returns
\* is empty and so is the argument list.
C8_NoOutputBesideAnError ==
    (Called /\ ret.outcome = "returned" /\ ret.err # NoError)
        => ret.query = "" /\ ret.args = <<>>

\* C8, the case: a template text fails on a lookup after the scanner has
\* resolved a placeholder
C8_Witness ==
    /\ Called
    /\ call.exp.node = "Text"
    /\ Failed(UnknownParameter)
    /\ ret.ph # <<>>

\* the table of the statement, or the procedure, is nil or has no name
MissingName(exp) ==
    \/ /\ exp.node \in {"Insert", "Update", "Delete"}
       /\ (exp.Table.node = "nil" \/ exp.Table.Name = "")
    \/ /\ exp.node = "Procedure"
       /\ (exp.isNil \/ exp.Name = "")

\* the statement's rendering reaches a node the visitor does not support
RECURSIVE ReachesUnsupported(_)
ReachesUnsupported(exp) ==
    \/ exp.node \in {"Text", "Procedure", "Parameter", "Output"}
    \/ exp.node \in {"Null", "Sql", "Operator"} /\ ~exp.raw
    \/ \E i \in 1..Len(SubExps(exp, TRUE)) : ReachesUnsupported(SubExps(exp, TRUE)[i])

\* C9: a statement whose tree holds a Text, Procedure, Parameter or Output
\* node, or a Null, Sql or Operator node without a raw string form, compiles
\* to an UnsupportedExpression error; the call never panics.
C9_UnsupportedNodeIsAnError ==
    (/\ Called
     /\ call.exp.node \in StatementKinds
     /\ ~MissingName(call.exp)
     /\ ReachesUnsupported(call.exp))
        => Failed(UnsupportedExpression)

\* C10: an Insert, Update or Delete whose table is nil or has an empty name,
\* and a Procedure that is nil or has an empty name, compile to an
\* InvalidArgument error: no panic, no text with the name missing.
C10_MissingNameIsInvalidArgument ==
    (Called /\ call.entry = "AnsiDriver.Compile" /\ MissingName(call.exp))
        => Failed(InvalidArgument)

(***************************************************************************)
(* Procedure calls and row limits.                                         *)
(***************************************************************************)
\* strings.HasSuffix and strings.Contains
HasSuffix(str, x) ==
    Len(str) >= Len(x) /\ SubSeq(str, Len(str) - Len(x) + 1, Len(str)) = x

Contains(str, x) ==
    \E i \in 1..(Len(str) - Len(x) + 1) : SubSeq(str, i, i + Len(x) - 1) = x

\* the driver was given a procedure that is not nil and has a name
CompiledProcedure ==
    /\ call.entry = "AnsiDriver.Compile"
    /\ call.exp.node = "Procedure"
    /\ ~call.exp.isNil
    /\ call.exp.Name # ""

\* the parameters of the given directions, in parameter order
OfDir(ps, dirs) ==
    LET Test(p) == p.Dir \in dirs IN SelectSeq(ps, Test)

\* a parameter list of one In and one Out parameter, in either order
OneInOneOut(ps) ==
    Len(ps) = 2 /\ Len(OfDir(ps, {"In"})) = 1 /\ Len(OfDir(ps, {"Out"})) = 1

\* C11: a Procedure with one In and one Out parameter compiles to a CALL
\* with one placeholder and one @name reference, followed by SELECT @name,
\* and binds exactly the In value; whatever the parameters, the argument
\* list has an entry for every In and InOut parameter and none for an Out
\* (or Return) parameter.
C11_OutParametersBindNothing ==
    CompiledProcedure =>
        LET ps == call.exp.Parameters IN
        /\ Succeeded
        /\ Len(ret.args) = Len(OfDir(ps, {"In", "InOut"}))
        /\ \A i \in 1..Len(ps) :
              ps[i].Dir = "Out" => \A k \in 1..Len(ret.args) : ret.args[k] # ps[i].Value
        /\ OneInOneOut(ps) =>
              LET in == OfDir(ps, {"In"})[1]
                  out == OfDir(ps, {"Out"})[1]
              IN /\ ret.args = <<in.Value>>
                 /\ ret.query = "CALL " \o call.exp.Name \o " ( "
                                  \o (IF ps[1].Dir = "In" THEN "?, @" \o out.Name
                                      ELSE "@" \o out.Name \o ", ?")
                                  \o " );\nSELECT @" \o out.Name \o "; "

\* a procedure of one In and one Out parameter was compiled and bound one value
C11_Witness ==
    /\ CompiledProcedure
    /\ OneInOneOut(call.exp.Parameters)
    /\ ret.outcome = "returned"
    /\ Len(ret.args) = 1
    /\ Contains(ret.query, "SELECT @")

\* the driver was given a Query, and the call returned without an error
CompiledQuery ==
    /\ call.entry = "AnsiDriver.Compile"
    /\ call.exp.node = "Query"
    /\ Succeeded

Limited(q) == q.Offset > 0 \/ q.Count > 0

Unlimited(q) == [q EXCEPT !.Offset = 0, !.Count = 0]

\* C12 as the code has it: a Query's text has a row-limiting clause if and
\* only if Offset > 0 or Count > 0; the clause is a line break, the limiting
\* keyword, a blank, Offset, a comma and Count, written after the other
\* clauses and before the closing semicolon, and it binds no argument: the
\* arguments are those of the same Query without a limit.
C12_LimitClauseWhenOffsetOrCount ==
    CompiledQuery =>
        LET q == call.exp
            base == AnsiDriverCompile(call.Dialecter, Unlimited(q))
            clauses == SubSeq(base.query, 1, Len(base.query) - 1)
        IN /\ Contains(ret.query, ansi_Limit) <=> Limited(q)
           /\ base.err = NoError
           /\ HasSuffix(base.query, ansi_StatementSplit)
           /\ ret.args = base.args
           /\ ret.query = IF Limited(q)
                          THEN clauses \o "\n" \o ansi_Limit \o " " \o Itoa(q.Offset) \o ","
                                       \o Itoa(q.Count) \o ansi_StatementSplit
                          ELSE base.query

\* a Query with a Count and no Offset was compiled, with bound arguments
C12_Witness ==
    /\ CompiledQuery
    /\ call.exp.Offset = 0
    /\ call.exp.Count > 0
    /\ ret.args # <<>>
    /\ HasSuffix(ret.query, "\nLIMIT 0,5;")

\* C12 as stated: the clause is there if and only if Offset > 0 or Count > 0
\* and binds nothing, and Offset = 10, Count = 5 with no other clause renders
\* SELECT * FROM t LIMIT 10,5.
C12_LimitExampleText ==
    CompiledQuery =>
        /\ Contains(ret.query, ansi_Limit) <=> Limited(call.exp)
        /\ ret.args = AnsiDriverCompile(call.Dialecter, Unlimited(call.exp)).args
        /\ call.exp = Query(FALSE, NilExp, From(t1, <<>>, <<>>), NilExp, NilExp, NilExp,
                            NilExp, 10, 5)
              => ret.query = "SELECT * FROM t LIMIT 10,5"

(***************************************************************************)
(* A StatementCompiler that is used again.                                 *)
(***************************************************************************)
\* C15: a call of StatementCompiler.Compile returns what the same call
\* returns on a newly created compiler of the same dialect, whatever the
\* instance compiled before: exactly the arguments of its own expression
\* and, in indexed mode, placeholders numbered from 1.
C15_EveryCallStartsFresh ==
    (call.entry = "StatementCompiler.Compile" /\ ret.outcome = "returned")
        => LET fresh == StatementCompilerCompile(NewStatementCompiler(call.Dialecter),
                                                 call.exp).ret
           IN /\ ret.query = fresh.query
              /\ ret.args = fresh.args
              /\ ret.err = fresh.err
              /\ SupportIndexedParameter(call.Dialecter)
                    => \A i \in 1..Len(ret.ph) :
                          ret.ph[i] = ParameterPlaceHolder(call.Dialecter) \o Itoa(i)

(***************************************************************************)
(* The call statement of a procedure.                                      *)
(***************************************************************************)
\* the items of the call's argument list: one per In, Out and InOut parameter
RECURSIVE CallItems(_)
CallItems(ps) ==
    IF ps = <<>> THEN <<>>
    ELSE LET p == Head(ps)
         IN (CASE p.Dir = "In" -> <<"?">>
               [] p.Dir \in {"Out", "InOut"} -> <<"@" \o p.Name>>
               [] OTHER -> <<>>) \o CallItems(Tail(ps))

\* the values of a parameter list
ValuesOf(ps) == [i \in 1..Len(ps) |-> ps[i].Value]

\* the call statement the specification describes for a procedure
CallStatement(sp) ==
    (IF ReturnParameterName(sp) = "" THEN "CALL "
     ELSE "SET @" \o ReturnParameterName(sp) \o " = ")
        \o sp.Name \o " ( " \o JoinSplit(", ", CallItems(sp.Parameters)) \o " );"

\* C16: the call statement of a compiled procedure starts with
\* SET @returnName = when a Return parameter is designated and with CALL
\* otherwise, and its argument list has one item per In parameter (a
\* placeholder, whose value is bound, in parameter order, after the values
\* of the SET statements) and per Out / InOut parameter (@name), in order.
C16_CallStatementShape ==
    CompiledProcedure =>
        LET sp == call.exp IN
        /\ Succeeded
        /\ Contains(ret.query, CallStatement(sp))
        /\ ret.args = ValuesOf(OfDir(sp.Parameters, {"InOut"}))
                         \o ValuesOf(OfDir(sp.Parameters, {"In"}))

(***************************************************************************)
(* The registries.                                                         *)
(***************************************************************************)
NotFound == {"can not get dialecter:", "can not get compiler:"}

\* the index in the history of the last registration of key in a registry, or 0
LastRegistered(reg, key) ==
    LET at == {i \in 1..Len(registered) :
                 registered[i].registry = reg /\ registered[i].key = key}
    IN IF at = {} THEN 0 ELSE CHOOSE i \in at : \A j \in at : j <= i

\* C13: whatever was registered and looked up so far, a lookup of a key
\* that was never registered returns a NotFound error, a lookup of a
\* registered key returns without error the implementation most recently
\* registered under it, both registries hold exactly what the registrations
\* made them hold (so no lookup has changed them), and once init() has run
\* ansi, mysql and postgres are registered in both.
C13_LookupReturnsLastRegistered ==
    /\ got.op = "GetDialecter" =>
          LET i == LastRegistered("dialecters", got.key)
          IN IF i = 0
             THEN got.err.msg \in NotFound /\ got.err.detail = got.key
                  /\ got.dialecter = NilDialecter
             ELSE got.err = NoError /\ got.dialecter = registered[i].dialecter
    /\ got.op = "GetCompiler" =>
          LET i == LastRegistered("compilers", got.key)
          IN IF i = 0
             THEN got.err.msg \in NotFound /\ got.err.detail = got.key
                  /\ got.compiler = NilCompiler
             ELSE got.err = NoError /\ got.compiler = registered[i].compiler
    /\ \A key \in RegistryKeys :
          /\ key \in DOMAIN dialecters <=> LastRegistered("dialecters", key) # 0
          /\ key \in DOMAIN dialecters =>
                dialecters[key] = registered[LastRegistered("dialecters", key)].dialecter
          /\ key \in DOMAIN compilers <=> LastRegistered("compilers", key) # 0
          /\ key \in DOMAIN compilers =>
                compilers[key] = registered[LastRegistered("compilers", key)].compiler
    /\ registered # <<>> =>
          \A key \in {"ansi", "mysql", "postgres"} :
              key \in DOMAIN dialecters /\ key \in DOMAIN compilers

\* a key of init() was registered again with another compiler, and a lookup
\* returned that one
C13_Witness ==
    /\ got.op = "GetCompiler"
    /\ got.key = "ansi"
    /\ LastRegistered("compilers", "ansi") > Len(initCalls)
    /\ got.compiler = NewAnsiDriver("named")
    /\ got.err = NoError

(***************************************************************************)
(* Concurrent calls.                                                       *)
(***************************************************************************)
\* C14: with all registration done, however the steps of concurrent Compile
\* calls on the shared drivers interleave, a call that returns returns the
\* text, the arguments and the error it returns when it runs alone, and no
\* two calls in progress use the same StatementCompiler.
C14_ConcurrentCallsReturnAsAlone ==
    /\ \A p \in Procs :
          procs[p].pc = "returned" =>
              LET alone == AnsiDriverCompile(compilers[procs[p].key].Dialecter,
                                             procs[p].exp)
              IN /\ alone.outcome = "returned"
                 /\ procs[p].result.query = alone.query
                 /\ procs[p].result.args = alone.args
                 /\ procs[p].result.err = alone.err
    /\ \A p, q \in Procs :
          (p # q /\ procs[p].sc # 0 /\ procs[q].sc # 0) => procs[p].sc # procs[q].sc

\* two calls on the same driver are in progress at once: one has returned
\* its statement and arguments, the other has visited a different statement
\* and not yet read its results
C14_Witness ==
    \E p, q \in Procs :
        /\ p # q
        /\ procs[p].key = procs[q].key
        /\ procs[p].pc = "returned"
        /\ procs[p].sc # 0
        /\ procs[p].result.args # <<>>
        /\ procs[q].pc = "results"
        /\ procs[q].exp # procs[p].exp
        /\ heap[procs[q].sc].args # <<>>

====
